---- MODULE Spec2Model ----
(***************************************************************************)
(* Model of shared/hsm.py: the unattended-signing policy (HSMPolicy), its  *)
(* approval rules (ApprovalRule) and the per-decision audit session        *)
(* (AuditLogger).  One HSMPolicy object is followed from construction      *)
(* through load() and activate() and then through the requests the USB     *)
(* layer makes of the active policy.                                       *)
(***************************************************************************)
EXTENDS Integers, Sequences, FiniteSets, TLC

\* ---------------------------------------------------------------- values

\* Python's None and a present value, for the optional fields.
None == <<>>
Some(v) == <<v>>

\* ---------------------------------------------------------------- bounds

\* Largest allow_sl a policy document carries.
MaxAllow == 2
\* Longest rule list a policy document carries.
MaxRules == 2
\* Number of decisions (approve_transaction / approve_msg_sign calls) followed.
MaxDecisions == 2
\* Minutes of clock time followed.
MaxMinutes == 1

\* ----------------------------------------------------- program constants

\* len(psbt_sha) == 32
SHA_LEN == 32
\* (self.period*60): the period is in minutes, the clock in seconds
SEC_PER_MIN == 60
\* public_constants.MAX_USERNAME_LEN
MAX_USERNAME_LEN == 16
\* users.MAX_NUMBER_USERS, scaled to the three users of the model
MAX_NUMBER_USERS == 3

\* pop_string(j, 'set_sl', 16, ...): the shortest secret load() takes
MIN_SL_LEN == 16
\* pincodes.AE_LONG_SECRET_LEN, the size of the storage locker
AE_LONG_SECRET_LEN == 416

\* ------------------------------------------------------- the environment

\* Usernames the Users collaborator knows.
KnownUsers == {"al", "bo", "cy"}
\* Six-digit local codes tcc.random.uniform() can draw.
Codes == {"000001", "000002"}
\* Names of the multisig wallets on the device.
MsNames == {"ms"}
\* Outcome of AuditLogger.__enter__: the log file opened, no card in the
\* slot (CardMissingError), or the card is there and mkdir/open fails (OSError).
OpenOutcomes == {"ok", "nocard", "oserror"}
\* Digest lengths the request layer hands over: a SHA-256 digest.
DigestLens == {SHA_LEN}
\* Digests, each standing for its last 8 bytes.
Digests == {"d1", "d2"}
\* ... and those any caller could hand over: missing, short, right.
AnyDigestLens == {0, SHA_LEN - 1, SHA_LEN}

Out(v, a, c) == [ nValue |-> v, addr |-> a, is_change |-> c ]

Psbt(outs, w, ms) == [ outputs |-> outs, warnings |-> w, active_multisig |-> ms ]

\* The outputs of the transactions followed: 1 or 2 to a1, 1 to a2 with
\* change back ...
OutputLists ==
    { << Out(1, "a1", FALSE) >>,
      << Out(2, "a1", FALSE) >>,
      << Out(1, "a2", FALSE), Out(2, "a1", TRUE) >> }

\* ... and nothing but change.
ChangeOnly == << Out(2, "a1", TRUE) >>

\* The transactions followed: each of these outputs single-signer, and the
\* first of them from each multisig wallet.
PSBTs ==
    { Psbt(o, 0, None) : o \in OutputLists }
      \cup { Psbt(<< Out(1, "a1", FALSE) >>, 0, Some(n)) : n \in MsNames }

\* ------------------------------------------------------ policy documents

RuleDoc(pp, ma, us, wl, mu, lc, w) ==
    [ per_period |-> pp, max_amount |-> ma, users |-> us, whitelist |-> wl,
      min_users |-> mu, local_conf |-> lc, wallet |-> w ]

PolicyDoc(ml, wok, mp, per, rs) ==
    [ must_log |-> ml, warnings_ok |-> wok, msg_paths |-> mp, period |-> per, rules |-> rs,
      allow_sl |-> None, set_sl |-> None,
      share_xpubs |-> <<>>, share_addrs |-> <<>>, notes |-> None ]

\* The document d with these allow_sl and set_sl.
LockerDoc(d, allow, secret) == [ d EXCEPT !.allow_sl = allow, !.set_sl = secret ]

\* A secret of the shortest length load() takes, and one a character shorter.
\* What a document says of message paths, shared paths and notes: nothing, or
\* each of them in the spellings load() cleans up.
Sharing ==
    { [ msg_paths |-> <<>>, share_xpubs |-> <<>>, share_addrs |-> <<>>, notes |-> None ],
      [ msg_paths |-> << "ANY", "m/1" >>, share_xpubs |-> << "m/2" >>,
        share_addrs |-> << "P2SH", "m/1" >>, notes |-> Some("n") ] }

\* The document d saying sh of them.
SharingDoc(d, sh) ==
    [ d EXCEPT !.msg_paths = sh.msg_paths, !.share_xpubs = sh.share_xpubs,
               !.share_addrs = sh.share_addrs, !.notes = sh.notes ]

Secret == [ i \in 1..MIN_SL_LEN |-> "k" ]
ShortSecret == [ i \in 1..(MIN_SL_LEN - 1) |-> "k" ]

\* The rule objects followed: no constraint at all; a per-transaction cap with
\* a whitelist; two users (min_users left to its default); local confirmation
\* on the multisig wallet; a velocity limit on single-signer transactions.
R_open == RuleDoc(None, None, <<>>, {}, None, FALSE, None)
R_cap == RuleDoc(None, Some(1), <<>>, {"a1"}, None, FALSE, None)
R_users == RuleDoc(None, None, <<"al", "bo">>, {}, None, FALSE, None)
R_local == RuleDoc(None, None, <<>>, {}, None, TRUE, Some("ms"))
R_vel == RuleDoc(Some(2), None, <<>>, {}, None, FALSE, Some("1"))
R_vel1 == RuleDoc(Some(1), None, <<>>, {}, None, FALSE, None)

RuleDocs == { R_open, R_cap, R_users, R_local, R_vel }

\* Rule objects that differ in their quorum: two of three users, one user.
R_2of3 == RuleDoc(None, None, <<"al", "bo", "cy">>, {}, Some(2), FALSE, None)
R_al == RuleDoc(None, None, <<"al">>, {}, None, FALSE, None)

QuorumRuleDocs == { R_users, R_2of3, R_al }

\* ... and rules that differ in their wallet only: single-signer, the multisig
\* wallet "ms", any.
R_single == RuleDoc(None, None, <<>>, {}, None, FALSE, Some("1"))
R_ms == RuleDoc(None, None, <<>>, {}, None, FALSE, Some("ms"))
WalletRuleDocs == { R_single, R_ms, R_open }

\* psbt.active_multisig.name: the names a transaction's multisig wallet may
\* bear, the wallets the rules can name among them.
WalletNames == MsNames \cup { "1", "m2" }

\* Every rule list of up to MaxRules of these rule objects.
RuleLists == UNION { [1..n -> RuleDocs] : n \in 0..MaxRules }

\* Documents that differ in their rule list ...
RuleListDocs == { PolicyDoc(FALSE, FALSE, <<>>, Some(1), rs) : rs \in RuleLists }

\* ... documents that differ in their top-level options ...
OptionDocs ==
    { PolicyDoc(ml, wok, mp, None, rs) :
        ml \in BOOLEAN, wok \in BOOLEAN, mp \in { <<"any">>, <<"m/1">> },
        rs \in { <<>>, << R_open >>, << R_users >> } }

\* ... documents with velocity limits ...
VelocityDocs ==
    { PolicyDoc(ml, FALSE, <<>>, Some(1), rs) :
        ml \in BOOLEAN, rs \in { << R_vel >>, << R_vel1, R_vel >>, << R_cap, R_vel1 >> } }

\* ... documents whose rules differ in their quorum ...
QuorumDocs ==
    { PolicyDoc(FALSE, FALSE, <<>>, None, rs) :
        rs \in UNION { [1..n -> QuorumRuleDocs] : n \in 1..MaxRules } }

\* ... documents whose rules differ in their wallet ...
WalletDocs ==
    { PolicyDoc(FALSE, FALSE, <<>>, None, rs) :
        rs \in UNION { [1..n -> WalletRuleDocs] : n \in 1..MaxRules } }

\* ... documents that differ in what they say of the storage locker, under a
\* few rule lists ...
LockerDocs ==
    { SharingDoc(LockerDoc(PolicyDoc(FALSE, wok, <<>>, Some(2), rs), allow, secret), sh) :
        wok \in BOOLEAN, sh \in Sharing,
        rs \in { <<>>, << R_2of3, R_al >>, << R_cap, R_local, R_vel >> },
        allow \in { Some(n) : n \in 1..MaxAllow },
        secret \in { None, Some(Secret) } }
      \cup { PolicyDoc(FALSE, FALSE, <<>>, None, << R_open >>),
              [ allow_sl |-> Some(1) ] }

\* ... those load() raises on: a secret and no allowance to read it, a secret
\* too short, 'p2sh' where only paths may stand, a field load() does not know ...
BadLockerDocs ==
    { LockerDoc(PolicyDoc(FALSE, FALSE, <<>>, None, <<>>), None, Some(Secret)),
      LockerDoc(PolicyDoc(FALSE, FALSE, <<>>, None, <<>>), Some(1), Some(ShortSecret)),
      [ share_xpubs |-> << "P2SH" >> ],
      [ allow_sl |-> Some(1), sl_reads |-> 0 ] }

\* ... and one load() raises on: a velocity limit and no period.
BadDocs == { PolicyDoc(FALSE, FALSE, <<>>, None, << R_vel >>) }

\* What the environment does in the behaviours followed: the documents
\* offered to load(), the requests made, the credentials submitted, the codes
\* entered at the keypad and drawn, the readings of the clock, and how
\* opening the audit log on the card turns out.
Scope(docs, txns, msgs, creds, codes, clocks, opens) ==
    [ docs |-> docs, txns |-> txns, msgs |-> msgs, creds |-> creds, codes |-> codes,
      clocks |-> clocks, opens |-> opens, decisions |-> MaxDecisions ]

TxnRequests(psbts, lens) == [ op : {"txn"}, psbt : psbts, sha_len : lens, sha : {"d1"} ]
MsgRequests(paths) == [ op : {"msg"}, subpath : paths, sha : {"d1"} ]

\* The requests reqs, each under each of the digests shas.
WithDigests(reqs, shas) == { [ r EXCEPT !.sha = d ] : r \in reqs, d \in shas }

\* Rule matching: every rule list, every transaction.
MainScope ==
    Scope(RuleListDocs \cup BadDocs,
          TxnRequests(PSBTs, DigestLens),
          MsgRequests({"m/1"}),
          { <<"al", "good">>, <<"bo", "good">> },
          { "000001" },
          { 0, SEC_PER_MIN + 1 },
          { "ok" })

\* The gates before rule matching: every option, good and bad credentials,
\* right and wrong codes.
GateScope ==
    Scope(OptionDocs \cup { PolicyDoc(TRUE, FALSE, <<>>, Some(1), << R_vel >>) } \cup BadDocs,
          TxnRequests({ Psbt(<< Out(1, "a1", FALSE) >>, w, None) : w \in 0..1 }, DigestLens),
          MsgRequests({"m/1", "m/2"}),
          { <<"al", "good">>, <<"al", "bad">>, <<"bo", "good">>, <<"x", "good">> },
          Codes,
          { 0, SEC_PER_MIN + 1 },
          OpenOutcomes)

\* The same calls, made with any digest.
AnyDigestScope ==
    Scope(GateScope.docs,
          TxnRequests({ Psbt(<< Out(1, "a1", FALSE) >>, 0, None) }, AnyDigestLens),
          GateScope.msgs, GateScope.creds, GateScope.codes, GateScope.clocks, OpenOutcomes)

\* Quorums: every set of the three users verified.
QuorumScope ==
    Scope(QuorumDocs \cup BadDocs,
          TxnRequests({ Psbt(<< Out(1, "a1", FALSE) >>, 0, None) }, DigestLens),
          MsgRequests({"m/1"}),
          { <<"al", "good">>, <<"bo", "good">>, <<"cy", "good">> },
          { "000001" },
          { 0 },
          { "ok" })

\* Wallets: transactions of no multisig wallet and of each multisig wallet.
WalletScope ==
    Scope(WalletDocs \cup BadDocs,
          TxnRequests({ Psbt(<< Out(1, "a1", FALSE) >>, 0, ms) :
                          ms \in { None } \cup { Some(n) : n \in WalletNames } }, DigestLens),
          MsgRequests({"m/1"}),
          { <<"al", "good">> },
          { "000001" },
          { 0 },
          { "ok" })

\* The rolling window: payments late in one window and early in the next,
\* followed for one decision more.
RollingScope ==
    [ Scope({ PolicyDoc(FALSE, FALSE, <<>>, Some(1), << R_vel >>) } \cup BadDocs,
            TxnRequests({ Psbt(<< Out(v, "a1", FALSE) >>, 0, None) : v \in 1..2 }, DigestLens),
            MsgRequests({"m/1"}),
            { <<"al", "good">> },
            { "000001" },
            { 1, SEC_PER_MIN, SEC_PER_MIN + 1 },
            { "ok" })
      EXCEPT !.decisions = MaxDecisions + 1 ]

\* The audit log: requests of two digests, decided one way and the other, the
\* card there or not.
LogScope ==
    Scope({ PolicyDoc(ml, FALSE, << "m/1" >>, None, << R_users >>) : ml \in BOOLEAN },
          WithDigests(TxnRequests({ Psbt(<< Out(1, "a1", FALSE) >>, 0, None) }, DigestLens),
                      Digests),
          WithDigests(MsgRequests({ "m/1", "m/2" }), Digests),
          { <<"al", "good">>, <<"bo", "good">> },
          { "000001" },
          { 0 },
          OpenOutcomes)

\* The storage locker: every allowance, a secret staged or not.
LockerScope ==
    Scope(LockerDocs \cup BadLockerDocs,
          TxnRequests({ Psbt(<< Out(1, "a1", FALSE) >>, 0, None) }, DigestLens),
          MsgRequests({"m/1"}),
          { <<"al", "good">> },
          { "000001" },
          { 0 },
          { "ok" })

\* Spending over time: the seconds around each minute of the clock.
VelocityScope ==
    Scope(VelocityDocs \cup BadDocs,
          TxnRequests({ Psbt(o, 0, None) : o \in OutputLists \cup { ChangeOnly } }, DigestLens),
          MsgRequests({"m/1"}),
          { <<"al", "good">> },
          { "000001" },
          {0, 1} \cup { m * SEC_PER_MIN + d : m \in 1..MaxMinutes, d \in {-1, 0, 1} },
          { "ok", "nocard" })

\* ------------------------------------------------------------------ state

VARIABLES
    phase,               \* "new" (constructed), "loaded", "active" (main.hsm_active is self)
    must_log,            \* HSMPolicy.must_log
    warnings_ok,         \* HSMPolicy.warnings_ok
    msg_paths,           \* HSMPolicy.msg_paths
    share_xpubs,         \* HSMPolicy.share_xpubs
    share_addrs,         \* HSMPolicy.share_addrs
    notes,               \* HSMPolicy.notes, or None
    period,              \* HSMPolicy.period, minutes, or None
    rules,               \* HSMPolicy.rules: the ApprovalRule objects, spent_so_far included
    refusals,            \* HSMPolicy.refusals
    approvals,           \* HSMPolicy.approvals
    last_refusal,        \* HSMPolicy.last_refusal
    pending_auth,        \* HSMPolicy.pending_auth: username -> credential
    period_started,      \* HSMPolicy.period_started
    local_code_pending,  \* HSMPolicy.local_code_pending
    next_local_code,     \* HSMPolicy.next_local_code
    allow_sl,            \* HSMPolicy.allow_sl, or None
    set_sl,              \* HSMPolicy.set_sl, or None
    sl_reads,            \* HSMPolicy.sl_reads
    locker,              \* the storage locker behind pa.ls_change / pa.ls_fetch
    logs,                \* the files on the SD card: name -> the lines written
    card_held,           \* the card slot was acquired and has not been released
    spends,              \* history: the spends recorded, each with its rule and its time
    now,                 \* utime.time() as last read
    req,                 \* the request the USB layer is about to hand to the policy, or None
    last                 \* the reply of the call that just ended, or None

vars == << phase, must_log, warnings_ok, msg_paths, share_xpubs, share_addrs, notes, period, rules, refusals, approvals,
           last_refusal, pending_auth, period_started, local_code_pending,
           next_local_code, allow_sl, set_sl, sl_reads, locker, logs, card_held, spends,
           now, req, last >>

config == << must_log, warnings_ok, msg_paths, share_xpubs, share_addrs, notes, period, allow_sl >>
storage == << set_sl, sl_reads, locker >>
counters == << refusals, approvals, last_refusal >>
card == << logs, card_held >>
localcode == << local_code_pending, next_local_code >>
velocity == << rules, period_started >>

\* ------------------------------------------------------------ ApprovalRule

\* len(username), for the usernames followed
UsernameLen(u) == IF u = "x" THEN 1 ELSE 2

\* pop_int(): None, or an integer within [mn..mx]
PopIntOk(v, mn, mx) == IF v = None THEN TRUE ELSE (mn <= v[1] /\ v[1] <= mx)

\* no element twice: sorted(set(self.users)) == sorted(self.users)
NoDups(us) == \A i, k \in 1..Len(us) : us[i] = us[k] => i = k

Range(f) == { f[i] : i \in DOMAIN f }

\* ApprovalRule.__init__ raises on this rule object
RuleDocOk(j) ==
    /\ \A i \in 1..Len(j.users) : j.users[i] \in KnownUsers
    /\ PopIntOk(j.min_users, 1, Len(j.users))
    /\ NoDups(j.users)
    /\ (j.wallet # None /\ j.wallet # Some("1")) => j.wallet[1] \in MsNames

\* ApprovalRule.__init__(j, idx)
ApprovalRule(j, idx) ==
    [ spent_so_far |-> 0,
      index |-> idx + 1,
      per_period |-> j.per_period,
      max_amount |-> j.max_amount,
      users |-> j.users,
      whitelist |-> j.whitelist,
      min_users |-> IF j.min_users = None
                    THEN (IF j.users # <<>> THEN Some(Len(j.users)) ELSE None)
                    ELSE j.min_users,
      local_conf |-> j.local_conf,
      wallet |-> j.wallet ]

\* to_json that leaves the quorum out.
ToJsonNoQuorum(r) ==
    [ per_period |-> r.per_period, max_amount |-> r.max_amount, users |-> r.users,
      min_users |-> None, local_conf |-> r.local_conf, whitelist |-> r.whitelist,
      wallet |-> r.wallet ]

\* ApprovalRule.to_json()
ToJson(r) ==
    [ per_period |-> r.per_period, max_amount |-> r.max_amount, users |-> r.users,
      min_users |-> r.min_users, local_conf |-> r.local_conf, whitelist |-> r.whitelist,
      wallet |-> r.wallet ]

\* ApprovalRule.has_velocity
HasVelocity(r) == r.per_period # None

\* The velocity check passes on the counter as it stands, the amount left out.
VelocityOkBeforeSpend(rule, total_out) == rule.spent_so_far <= rule.per_period[1]

\* assert self.spent_so_far + total_out <= self.per_period
VelocityOk(rule, total_out) == rule.spent_so_far + total_out <= rule.per_period[1]

\* The quorum counted over everybody who verified, listed by the rule or not.
QuorumProblemAnyUser(rule, users) ==
    IF users = {}
    THEN "need user(s) confirmation"
    ELSE IF ~(Cardinality(users) >= rule.min_users[1])
    THEN "need more users to confirm"
    ELSE ""

\* if self.users: given = set(self.users).intersection(users); assert given;
\* assert len(given) >= self.min_users: the message of the assertion that
\* fails, "" if none does
QuorumProblem(rule, users) ==
    LET given == Range(rule.users) \cap users IN
    IF given = {}
    THEN "need user(s) confirmation"
    ELSE IF ~(Cardinality(given) >= rule.min_users[1])
    THEN "need more users to confirm"
    ELSE ""

\* ApprovalRule.matches_transaction: "" when the rule applies (returns True),
\* else the message of the assertion that failed.
MatchesTransaction(rule, psbt, users, total_out, dests, local_oked) ==
    IF rule.wallet # None /\ psbt.active_multisig # None
         /\ rule.wallet # psbt.active_multisig
    THEN "wrong wallet"
    ELSE IF rule.wallet # None /\ psbt.active_multisig = None /\ rule.wallet # Some("1")
    THEN "not multisig"
    ELSE IF rule.max_amount # None /\ ~(total_out <= rule.max_amount[1])
    THEN "too much out"
    ELSE IF rule.whitelist # {} /\ (dests \ rule.whitelist) # {}
    THEN "non-whitelisted dest"
    ELSE IF rule.local_conf /\ ~local_oked
    THEN "local operator didn't confirm"
    ELSE IF rule.users # <<>> /\ QuorumProblem(rule, users) # ""
    THEN QuorumProblem(rule, users)
    ELSE IF rule.per_period # None /\ ~VelocityOk(rule, total_out)
    THEN "would exceed period spending"
    ELSE ""

\* --------------------------------------------------------------- velocity

\* HSMPolicy.reset_period: the rules with their counters at zero
ResetRules(rs) == [ i \in DOMAIN rs |-> [ rs[i] EXCEPT !.spent_so_far = 0 ] ]

\* get_time_left with the window still open at the very second it ends
\* (left < 0 in place of left <= 0).
GetTimeLeftLate(per, started, rs, t) ==
    IF per = None
    THEN [ ret |-> None, rules |-> rs, period_started |-> started, read |-> FALSE ]
    ELSE IF started = 0
    THEN [ ret |-> Some(-1), rules |-> rs, period_started |-> started, read |-> FALSE ]
    ELSE LET left == (per[1] * SEC_PER_MIN) - (t - started)
         IN IF left < 0
            THEN [ ret |-> Some(-1), rules |-> ResetRules(rs), period_started |-> 0,
                   read |-> TRUE ]
            ELSE [ ret |-> Some(left), rules |-> rs, period_started |-> started,
                   read |-> TRUE ]

\* HSMPolicy.get_time_left, t being what utime.time() returns if asked: the
\* value returned (None, or Some(-1), or Some(seconds left)), the rules and
\* period_started it leaves, and whether it read the clock.
GetTimeLeft(per, started, rs, t) ==
    IF per = None
    THEN [ ret |-> None, rules |-> rs, period_started |-> started, read |-> FALSE ]
    ELSE IF started = 0
    THEN [ ret |-> Some(-1), rules |-> rs, period_started |-> started, read |-> FALSE ]
    ELSE LET so_far == t - started
             left == (per[1] * SEC_PER_MIN) - so_far
         IN IF left <= 0
            THEN [ ret |-> Some(-1), rules |-> ResetRules(rs), period_started |-> 0,
                   read |-> TRUE ]
            ELSE [ ret |-> Some(left), rules |-> rs, period_started |-> started,
                   read |-> TRUE ]

\* record_spend that takes the clock's reading as it is, 0 included.
RecordSpendAtZero(rs, started, k, amt, t) ==
    [ rules |-> [ rs EXCEPT ![k].spent_so_far = @ + amt ],
      period_started |-> IF started = 0 THEN t ELSE started,
      read |-> (started = 0) ]

\* HSMPolicy.record_spend(rule, amt), the rule given by its place in the list
\* and t being what utime.time() returns if asked
RecordSpend(rs, started, k, amt, t) ==
    [ rules |-> [ rs EXCEPT ![k].spent_so_far = @ + amt ],
      period_started |-> IF started = 0 THEN (IF t # 0 THEN t ELSE 1) ELSE started,
      read |-> (started = 0) ]

\* The history after record_spend(rule, amt) at time t: a spend of nothing
\* adds to no total and is left out.
Recorded(hist, k, amt, t) ==
    IF amt > 0 THEN Append(hist, [ rule |-> k, amt |-> amt, t |-> t ]) ELSE hist

\* ------------------------------------------------------------ AuditLogger

\* A line handed to AuditLogger.refuse: its text and, for a rejection by the
\* rules, the per-rule reasons ("rule #%d: ...: %s") joined into it.
Msg(kind, reasons) == [ kind |-> kind, reasons |-> reasons ]

\* AuditLogger.is_unsaved after __enter__ ended with this outcome
IsUnsaved(open) == open # "ok"

\* self.fname: the directory and the hex of the digest's last 8 bytes (a digest
\* of the model stands for those bytes)
Fname(dirname, digest) == << dirname, digest >>

\* self.fd after AuditLogger.__enter__: the file's name, or None for sys.stdout
Fd(open, dirname, digest) == IF open = "ok" THEN Some(Fname(dirname, digest)) ELSE None

\* open(self.fname, 'w+t'): the file is there and empty
Opened(files, fd) == IF fd = None THEN files ELSE (fd[1] :> << >>) @@ files

\* CardSlot().__enter__() returned: the card slot is acquired
Acquired(open) == open \in { "ok", "oserror" }

\* AuditLogger.__exit__: `if self.card:` closes the file and releases the slot
Released(open) == ~IsUnsaved(open)

\* The card slot after a session: held if it was, or if this session acquired
\* it and did not release it.
HeldAfter(held, open) == held \/ (Acquired(open) /\ ~Released(open))

\* A line of a log: what kind of line, and its message.
Line(tag, msg) == [ tag |-> tag, msg |-> msg ]

\* AuditLogger.info(msg): the files after the line went to fd
Info(files, fd, line) ==
    IF fd = None THEN files ELSE [ files EXCEPT ![fd[1]] = Append(@, line) ]

\* AuditLogger.refuse(msg)
LogRefuse(files, fd, msg) ==
    /\ logs' = Info(files, fd, Line("REFUSED", msg))
    /\ refusals' = refusals + 1
    /\ last_refusal' = Some(msg)
    /\ approvals' = approvals

\* approve that leaves the last refusal standing.
LogApproveKeepsRefusal(files, fd, msg) ==
    /\ logs' = Info(files, fd, Line("APPROVED", msg))
    /\ approvals' = approvals + 1
    /\ last_refusal' = last_refusal
    /\ refusals' = refusals

\* AuditLogger.approve(msg)
LogApprove(files, fd, msg) ==
    /\ logs' = Info(files, fd, Line("APPROVED", msg))
    /\ approvals' = approvals + 1
    /\ last_refusal' = None
    /\ refusals' = refusals

\* ------------------------------------------------------- the request layer

\* What a call returned to the request layer: 'y', 'x', or "exc" for an
\* exception that left the call; the place in the rule list of the rule it was
\* approved under (0: none); and whether its audit session was is_unsaved.
Reply(op, ret, rule, unsaved) == [ op |-> op, ret |-> ret, rule |-> rule, unsaved |-> unsaved ]

\* The request layer is between two calls.
Idle == phase = "active" /\ req = None /\ last = None

\* ---------------------------------------------------------------- actions

\* The storage locker as it is before anything was saved in it: all zeroes.
BlankLocker == [ ll |-> 0, data |-> <<>> ]

\* HSMPolicy.__init__, the first local code being one the scope draws
InitIn(sc) ==
    /\ phase = "new"
    /\ must_log = FALSE
    /\ warnings_ok = FALSE
    /\ msg_paths = <<>>
    /\ share_xpubs = <<>>
    /\ share_addrs = <<>>
    /\ notes = None
    /\ period = None
    /\ rules = <<>>
    /\ refusals = 0
    /\ approvals = 0
    /\ last_refusal = None
    /\ pending_auth = << >>
    /\ period_started = 0
    /\ local_code_pending = ""
    /\ next_local_code \in sc.codes
    /\ allow_sl = None
    /\ set_sl = None
    /\ sl_reads = 0
    /\ locker = BlankLocker
    /\ logs = << >>
    /\ card_held = FALSE
    /\ spends = << >>
    /\ now = 0
    /\ req = None
    /\ last = None

\* j.pop(fld_name, default)
Pop(j, fld_name, default) == IF fld_name \in DOMAIN j THEN j[fld_name] ELSE default

\* s.lower(), of the spellings the documents use
Lower(s) == IF s = "ANY" THEN "any" ELSE IF s = "P2SH" THEN "p2sh" ELSE s

\* Derivation paths cleanup_deriv_path returns as they are; it raises on others.
DerivPaths == { "m/1", "m/2" }

\* pop_deriv_list.cu raises on s
CuOk(s, extra_val) ==
    \/ Lower(s) = "any"
    \/ extra_val # None /\ Lower(s) = extra_val[1]
    \/ s \in DerivPaths

\* pop_deriv_list.cu(s)
Cu(s, extra_val) ==
    IF Lower(s) = "any" THEN "any"
    ELSE IF extra_val # None /\ Lower(s) = extra_val[1] THEN Lower(s)
    ELSE s

\* pop_deriv_list(j, fld_name, extra_val) raises
PopDerivListOk(j, fld_name, extra_val) ==
    \A i \in DOMAIN Pop(j, fld_name, <<>>) : CuOk(Pop(j, fld_name, <<>>)[i], extra_val)

\* pop_deriv_list(j, fld_name, extra_val)
PopDerivList(j, fld_name, extra_val) ==
    [ i \in DOMAIN Pop(j, fld_name, <<>>) |-> Cu(Pop(j, fld_name, <<>>)[i], extra_val) ]

\* The fields load() pops; assert_empty_dict raises on any other.
PolicyFields ==
    { "must_log", "warnings_ok", "msg_paths", "share_xpubs", "share_addrs", "notes",
      "period", "allow_sl", "set_sl", "rules" }

\* HSMPolicy.load raises on this document
PolicyDocOk(j) ==
    /\ PopDerivListOk(j, "msg_paths", None)
    /\ PopDerivListOk(j, "share_xpubs", None)
    /\ PopDerivListOk(j, "share_addrs", Some("p2sh"))
    /\ PopIntOk(Pop(j, "period", None), 1, 3 * 24 * 60)
    /\ \A i \in DOMAIN Pop(j, "rules", <<>>) : RuleDocOk(Pop(j, "rules", <<>>)[i])
    /\ PopIntOk(Pop(j, "allow_sl", None), 1, 10)
    /\ Pop(j, "set_sl", None) # None =>
          /\ MIN_SL_LEN <= Len(Pop(j, "set_sl", None)[1])
          /\ Len(Pop(j, "set_sl", None)[1]) <= AE_LONG_SECRET_LEN - 2
          /\ Pop(j, "allow_sl", None) # None
    /\ ~(/\ Pop(j, "period", None) = None
         /\ \E i \in DOMAIN Pop(j, "rules", <<>>) : HasVelocity(Pop(j, "rules", <<>>)[i]))
    /\ DOMAIN j \subseteq PolicyFields

\* What HSMPolicy.load(j) assigns, field by field
Loaded(j) ==
    [ must_log |-> Pop(j, "must_log", FALSE),
      warnings_ok |-> Pop(j, "warnings_ok", FALSE),
      msg_paths |-> PopDerivList(j, "msg_paths", None),
      share_xpubs |-> PopDerivList(j, "share_xpubs", None),
      share_addrs |-> PopDerivList(j, "share_addrs", Some("p2sh")),
      notes |-> Pop(j, "notes", None),
      period |-> Pop(j, "period", None),
      allow_sl |-> Pop(j, "allow_sl", None),
      set_sl |-> Pop(j, "set_sl", None),
      rules |-> [ i \in DOMAIN Pop(j, "rules", <<>>) |->
                    ApprovalRule(Pop(j, "rules", <<>>)[i], i - 1) ] ]

\* HSMPolicy.load(j); a document it raises on leaves nothing loaded
Load(j) ==
    /\ phase = "new"
    /\ PolicyDocOk(j)
    /\ phase' = "loaded"
    /\ must_log' = Loaded(j).must_log
    /\ warnings_ok' = Loaded(j).warnings_ok
    /\ msg_paths' = Loaded(j).msg_paths
    /\ share_xpubs' = Loaded(j).share_xpubs
    /\ share_addrs' = Loaded(j).share_addrs
    /\ notes' = Loaded(j).notes
    /\ period' = Loaded(j).period
    /\ allow_sl' = Loaded(j).allow_sl
    /\ set_sl' = Loaded(j).set_sl
    /\ rules' = Loaded(j).rules
    /\ UNCHANGED << counters, pending_auth, period_started, localcode, sl_reads, locker,
                    now, req, last >>
    /\ UNCHANGED << card, spends >>

\* HSMPolicy.save()
Save ==
    [ must_log |-> must_log, msg_paths |-> msg_paths, share_xpubs |-> share_xpubs,
      share_addrs |-> share_addrs, notes |-> notes, period |-> period,
      allow_sl |-> allow_sl, warnings_ok |-> warnings_ok,
      rules |-> [ i \in DOMAIN rules |-> ToJson(rules[i]) ] ]

\* save_storage_locker that keeps the secret in memory.
SaveStorageLockerKeeps(secret) ==
    [ locker |-> [ ll |-> Len(secret), data |-> secret ], set_sl |-> Some(secret) ]

\* HSMPolicy.save_storage_locker: what pa.ls_change is given (a length
\* half-word, then the secret; the zero padding after it left out) and the
\* set_sl it leaves
SaveStorageLocker(secret) ==
    [ locker |-> [ ll |-> Len(secret), data |-> secret ], set_sl |-> None ]

\* activate without its assertion.
ActivateUnchecked(ph) == TRUE

\* assert not main.hsm_active
ActivateAllowed(ph) == ph # "active"

\* HSMPolicy.activate, called on the loaded policy or, by a request made of the
\* active one, once more: the assertion that fails leaves the call as an
\* exception before anything is assigned
Activate ==
    /\ phase = "loaded" \/ Idle
    /\ IF ActivateAllowed(phase)
       THEN /\ phase' = "active"
            /\ rules' = ResetRules(rules)
            /\ period_started' = 0
            /\ IF set_sl # None
               THEN /\ locker' = SaveStorageLocker(set_sl[1]).locker
                    /\ set_sl' = SaveStorageLocker(set_sl[1]).set_sl
               ELSE UNCHANGED << locker, set_sl >>
            /\ last' = Some(Reply("activate", "ok", 0, FALSE))
       ELSE /\ last' = Some(Reply("activate", "exc", 0, FALSE))
            /\ UNCHANGED << phase, velocity, locker, set_sl >>
    /\ UNCHANGED << config, counters, pending_auth, localcode, sl_reads, now, req >>
    /\ UNCHANGED << card, spends >>

\* HSMPolicy.usb_auth_user(username, token, totp_time); an assertion that
\* fails leaves the map as it was
UsbAuthUser(username, token) ==
    /\ Idle
    /\ 1 < UsernameLen(username) /\ UsernameLen(username) <= MAX_USERNAME_LEN
    /\ Cardinality(DOMAIN pending_auth) + 1 <= MAX_NUMBER_USERS
    /\ pending_auth' = [ u \in DOMAIN pending_auth \cup {username} |->
                            IF u = username THEN token ELSE pending_auth[u] ]
    /\ UNCHANGED << phase, config, velocity, counters, localcode, storage, now, req, last >>
    /\ UNCHANGED << card, spends >>

\* HSMPolicy.local_pin_entered(code)
LocalPinEntered(code) ==
    /\ Idle
    /\ local_code_pending' = code
    /\ UNCHANGED << phase, config, velocity, counters, pending_auth, next_local_code, storage,
                    now, req, last >>
    /\ UNCHANGED << card, spends >>

\* HSMPolicy.status_report, the clock reading t: of the policy's state it
\* touches only what get_time_left touches
StatusReport(t) ==
    /\ Idle
    /\ t >= now
    /\ LET tl == GetTimeLeft(period, period_started, rules, t) IN
         /\ rules' = tl.rules
         /\ period_started' = tl.period_started
         /\ now' = IF tl.read THEN t ELSE now
    /\ UNCHANGED << phase, config, counters, pending_auth, localcode, storage, req, last >>
    /\ UNCHANGED << card, spends >>

\* The allowance checked a read too late (<= in place of <).
FetchAllowedOneMore(allow, reads) == allow # None /\ reads <= allow[1]

\* assert self.allow_sl; assert self.sl_reads < self.allow_sl
FetchAllowed(allow, reads) == allow # None /\ reads < allow[1]

\* ll, = ustruct.unpack_from('H', raw); return raw[2:2+ll]
UnpackLocker(raw) == SubSeq(raw.data, 1, raw.ll)

\* HSMPolicy.fetch_storage_locker: an assertion that fails leaves the call as
\* an exception, the count as it was
FetchStorageLocker ==
    /\ Idle
    /\ IF FetchAllowed(allow_sl, sl_reads)
       THEN /\ sl_reads' = sl_reads + 1
            /\ last' = Some(Reply("locker", IF UnpackLocker(locker) = <<>> THEN "empty" ELSE "ok",
                                  0, FALSE))
       ELSE /\ sl_reads' = sl_reads
            /\ last' = Some(Reply("locker", "exc", 0, FALSE))
    /\ UNCHANGED << phase, config, velocity, counters, pending_auth, localcode, set_sl,
                    locker, now, req >>
    /\ UNCHANGED << card, spends >>

\* The request layer receives a request and is about to call the policy.
Submit(r) ==
    /\ Idle
    /\ req' = Some(r)
    /\ UNCHANGED << phase, config, velocity, counters, pending_auth, localcode, storage,
                    now, last >>
    /\ UNCHANGED << card, spends >>

\* The request layer has sent the reply.
SendReply ==
    /\ last # None
    /\ last' = None
    /\ UNCHANGED << phase, config, velocity, counters, pending_auth, localcode, storage,
                    now, req >>
    /\ UNCHANGED << card, spends >>

\* ------------------------------------------------------------- decisions

\* assert psbt_sha and len(psbt_sha) == 32
DigestOk(n) == n # 0 /\ n = SHA_LEN

\* The must_log gate left out.
MustLogNotEnforced(ml, unsaved) == FALSE

\* if self.must_log and log.is_unsaved
MustLogBlocks(ml, unsaved) == ml /\ unsaved

\* HSMPolicy.consume_local_code: what it returns and the code pair it leaves,
\* newcode being the number tcc.random.uniform() draws
ConsumeLocalCode(got, expect, newcode) ==
    [ ret |-> (got = expect), local_code_pending |-> "", next_local_code |-> newcode ]

\* if not self.rules: raise ValueError("no txn signing allowed")
NoRules(rs) == rs = <<>>

\* Warnings let through whatever warnings_ok says.
WarningsIgnored(psbt, wok) == FALSE

\* if psbt.warnings: ... raise ValueError unless self.warnings_ok
WarningsRefused(psbt, wok) == psbt.warnings > 0 /\ ~wok

\* Users.auth_okay(u, token, ...): the problem it reports, "" for none
AuthOkay(u, token) == IF token = "bad" THEN "mismatch" ELSE ""

\* The credentials taken as given, none verified.
AuthNotVerified(auth) == {}

\* The pending entries Users.auth_okay reports a problem for.
AuthProblems(auth) == { u \in DOMAIN auth : AuthOkay(u, auth[u]) # "" }

\* total_out: the value of the outputs that are not change
RECURSIVE TotalOut(_)
TotalOut(outs) ==
    IF outs = <<>> THEN 0
    ELSE (IF Head(outs).is_change THEN 0 ELSE Head(outs).nValue) + TotalOut(Tail(outs))

\* dests: the addresses of the outputs that are not change
Dests(outs) == { outs[i].addr : i \in { k \in DOMAIN outs : ~outs[k].is_change } }

\* for rule in self.rules: try ... break / except ... reasons.append / else:
\* the place of the rule the loop stopped at (0: it ran to its end) and the reasons
RECURSIVE RuleLoop(_, _, _, _, _, _, _, _)
RuleLoop(rs, i, reasons, psbt, users, total_out, dests, local_ok) ==
    IF i > Len(rs)
    THEN [ rule |-> 0, reasons |-> reasons ]
    ELSE LET why == MatchesTransaction(rs[i], psbt, users, total_out, dests, local_ok) IN
         IF why = ""
         THEN [ rule |-> i, reasons |-> reasons ]
         ELSE RuleLoop(rs, i + 1,
                       Append(reasons, [ rule |-> rs[i].index + 1, why |-> why ]),
                       psbt, users, total_out, dests, local_ok)

\* The loop without its break: the last rule that applies wins.
PickLastRule(rs, psbt, users, total_out, dests, local_ok) ==
    LET ok == { i \in DOMAIN rs :
                  MatchesTransaction(rs[i], psbt, users, total_out, dests, local_ok) = "" }
    IN [ rule |-> IF ok = {} THEN 0 ELSE CHOOSE i \in ok : \A k \in ok : k <= i,
         reasons |-> RuleLoop(rs, 1, <<>>, psbt, users, total_out, dests, local_ok).reasons ]

\* "Pick a rule to apply to this specific txn"
PickRule(rs, psbt, users, total_out, dests, local_ok) ==
    RuleLoop(rs, 1, <<>>, psbt, users, total_out, dests, local_ok)

\* HSMPolicy.approve_transaction(psbt, psbt_sha, story), with the outcome of
\* opening the audit log, the next local code drawn and the clock reading
ApproveTransaction(open, newcode, t) ==
    /\ phase = "active"
    /\ req # None
    /\ req[1].op = "txn"
    /\ t >= now
    /\ req' = None
    /\ LET psbt == req[1].psbt
           tl == GetTimeLeft(period, period_started, rules, t)
           fd == Fd(open, "psbt", req[1].sha)
           unsaved == IsUnsaved(open)
           asked == Info(Opened(logs, fd), fd,
                         Line("info", Msg("Transaction signing requested:", <<>>)))
           auth == pending_auth
           code == ConsumeLocalCode(local_code_pending, next_local_code, newcode)
           users == DOMAIN auth
           total_out == TotalOut(psbt.outputs)
           dests == Dests(psbt.outputs)
           pick == PickRule(tl.rules, psbt, users, total_out, dests, code.ret)
           spend == RecordSpend(tl.rules, tl.period_started, pick.rule, total_out, t)
           refused == /\ rules' = tl.rules
                      /\ spends' = spends
                      /\ period_started' = tl.period_started
                      /\ now' = IF tl.read THEN t ELSE now
                      /\ last' = Some(Reply("txn", "x", 0, unsaved))
       IN
       IF ~DigestOk(req[1].sha_len)
       THEN /\ last' = Some(Reply("txn", "exc", 0, FALSE))
            /\ UNCHANGED << velocity, now, counters, pending_auth, localcode, card, spends >>
       ELSE IF MustLogBlocks(must_log, unsaved)
       THEN /\ card_held' = HeldAfter(card_held, open)
            /\ LogRefuse(Opened(logs, fd), fd, Msg("Could not log details, and must_log is set", <<>>))
            /\ refused
            /\ UNCHANGED << pending_auth, localcode >>
       ELSE /\ card_held' = HeldAfter(card_held, open)
            /\ pending_auth' = << >>
            /\ local_code_pending' = code.local_code_pending
            /\ next_local_code' = code.next_local_code
            /\ IF NoRules(tl.rules)
               THEN /\ LogRefuse(asked, fd, Msg("Rejected: no txn signing allowed", <<>>))
                    /\ refused
               ELSE IF WarningsRefused(psbt, warnings_ok)
               THEN /\ LogRefuse(asked, fd, Msg("Rejected: has warning(s)", <<>>))
                    /\ refused
               ELSE IF AuthProblems(auth) # {}
               THEN /\ LogRefuse(asked, fd, Msg("User gave wrong auth value", <<>>))
                    /\ refused
               ELSE IF pick.rule = 0
               THEN /\ LogRefuse(asked, fd, Msg("Rejected: ", pick.reasons))
                    /\ refused
               ELSE /\ LogApprove(asked, fd, Msg("Acceptable by rule", <<>>))
                    /\ IF tl.rules[pick.rule].per_period # None
                       THEN /\ rules' = spend.rules
                            /\ period_started' = spend.period_started
                            /\ spends' = Recorded(spends, pick.rule, total_out, t)
                            /\ now' = IF tl.read \/ spend.read THEN t ELSE now
                       ELSE /\ rules' = tl.rules
                            /\ period_started' = tl.period_started
                            /\ spends' = spends
                            /\ now' = IF tl.read THEN t ELSE now
                    /\ last' = Some(Reply("txn", "y", pick.rule, unsaved))
    /\ UNCHANGED << phase, config, storage >>

\* The path looked up, the wildcard forgotten.
PathNotListed(paths, subpath) == subpath \notin Range(paths)

\* if 'any' not in self.msg_paths and (subpath not in self.msg_paths)
PathNotEnabled(paths, subpath) == "any" \notin Range(paths) /\ subpath \notin Range(paths)

\* HSMPolicy.approve_msg_sign(msg_text, address, subpath)
ApproveMsgSign(open) ==
    /\ phase = "active"
    /\ req # None
    /\ req[1].op = "msg"
    /\ req' = None
    /\ card_held' = HeldAfter(card_held, open)
    /\ LET subpath == req[1].subpath
           fd == Fd(open, "messages", req[1].sha)
           unsaved == IsUnsaved(open)
           asked == Info(Opened(logs, fd), fd,
                         Line("info", Msg("Message signing requested:", <<>>)))
       IN
       IF MustLogBlocks(must_log, unsaved)
       THEN /\ LogRefuse(Opened(logs, fd), fd, Msg("Could not log details, and must_log is set", <<>>))
            /\ last' = Some(Reply("msg", "x", 0, unsaved))
       ELSE IF msg_paths = <<>>
       THEN /\ LogRefuse(asked, fd, Msg("Message signing not permitted", <<>>))
            /\ last' = Some(Reply("msg", "x", 0, unsaved))
       ELSE IF PathNotEnabled(msg_paths, subpath)
       THEN /\ LogRefuse(asked, fd, Msg("Message signing not enabled for that path", <<>>))
            /\ last' = Some(Reply("msg", "x", 0, unsaved))
       ELSE /\ LogApprove(asked, fd, Msg("Message signing allowed", <<>>))
            /\ last' = Some(Reply("msg", "y", 0, unsaved))
    /\ UNCHANGED << phase, config, velocity, pending_auth, localcode, storage, spends,
                    now >>

\* --------------------------------------------------------- specifications

\* More calls are followed: fewer decisions were made than the scope follows.
Within(sc) == approvals + refusals < sc.decisions

NextIn(sc) ==
    \/ \E j \in sc.docs : Load(j)
    \/ Within(sc) /\ Activate
    \/ Within(sc) /\ \E c \in sc.creds : UsbAuthUser(c[1], c[2])
    \/ Within(sc) /\ \E c \in sc.codes : LocalPinEntered(c)
    \/ Within(sc) /\ \E t \in sc.clocks : StatusReport(t)
    \/ Within(sc) /\ \E r \in sc.txns \cup sc.msgs : Submit(r)
    \/ \E o \in sc.opens, c \in sc.codes, t \in sc.clocks : ApproveTransaction(o, c, t)
    \/ \E o \in sc.opens : ApproveMsgSign(o)
    \/ Within(sc) /\ FetchStorageLocker
    \/ SendReply

Init == InitIn(MainScope)
Next == NextIn(MainScope)
Spec == Init /\ [][Next]_vars

NextVelocity == NextIn(VelocityScope)
InitVelocity == InitIn(VelocityScope)
SpecVelocity == InitVelocity /\ [][NextVelocity]_vars

NextAnyDigest == NextIn(AnyDigestScope)
InitAnyDigest == InitIn(AnyDigestScope)
SpecAnyDigest == InitAnyDigest /\ [][NextAnyDigest]_vars

InitQuorum == InitIn(QuorumScope)
NextQuorum == NextIn(QuorumScope)
SpecQuorum == InitQuorum /\ [][NextQuorum]_vars

InitLocker == InitIn(LockerScope)
NextLocker == NextIn(LockerScope)
SpecLocker == InitLocker /\ [][NextLocker]_vars

InitWallet == InitIn(WalletScope)
NextWallet == NextIn(WalletScope)
SpecWallet == InitWallet /\ [][NextWallet]_vars

InitRolling == InitIn(RollingScope)
NextRolling == NextIn(RollingScope)
SpecRolling == InitRolling /\ [][NextRolling]_vars

InitLog == InitIn(LogScope)
NextLog == NextIn(LogScope)
SpecLog == InitLog /\ [][NextLog]_vars

InitGates == InitIn(GateScope)
NextGates == NextIn(GateScope)
SpecGates == InitGates /\ [][NextGates]_vars

\* --------------------------------------------------------------- properties

\* A step in which approve_transaction ran: a transaction request was handed
\* over and the call has ended.
TxnStep == req # None /\ req[1].op = "txn" /\ req' = None

\* A step in which approve_msg_sign ran.
MsgStep == req # None /\ req[1].op = "msg" /\ req' = None

\* The call of this step returned 'x' and one more refusal is counted, no approval.
OneRefusal ==
    /\ last'[1].ret = "x"
    /\ refusals' = refusals + 1
    /\ approvals' = approvals

\* No rule's counter went up in this step and no window was started.
NoSpend ==
    /\ DOMAIN rules' = DOMAIN rules
    /\ \A i \in DOMAIN rules : rules'[i].spent_so_far <= rules[i].spent_so_far
    /\ period_started' \in {0, period_started}

\* The rules as the decision of this step found them: after its get_time_left.
RulesAtDecision == GetTimeLeft(period, period_started, rules, now').rules

\* The first place in rs of a rule all of whose checks pass, 0 if there is none.
FirstPassing(rs, psbt, users, total_out, dests, local_ok) ==
    LET ok == { i \in DOMAIN rs :
                  MatchesTransaction(rs[i], psbt, users, total_out, dests, local_ok) = "" }
    IN IF ok = {} THEN 0 ELSE CHOOSE i \in ok : \A k \in ok : i <= k

\* The decision of this step gets as far as rule matching: the log is usable
\* or not required, there are rules, no warning stands in the way and every
\* pending credential verifies.
ReachesMatching ==
    /\ TxnStep
    /\ DigestOk(req[1].sha_len)
    /\ ~(must_log /\ last'[1].unsaved)
    /\ rules # <<>>
    /\ ~(req[1].psbt.warnings > 0 /\ ~warnings_ok)
    /\ \A u \in DOMAIN pending_auth : AuthOkay(u, pending_auth[u]) = ""

\* C1: a decision that reaches rule matching is approved under the first rule,
\* in declared order, whose checks all pass, never under a later one, and is
\* refused only if no rule passes.
C1_FirstPassingRuleDecides ==
    [][ ReachesMatching =>
          LET psbt == req[1].psbt
              first == FirstPassing(RulesAtDecision, psbt, DOMAIN pending_auth,
                                    TotalOut(psbt.outputs), Dests(psbt.outputs),
                                    local_code_pending = next_local_code)
          IN /\ last'[1].rule = first
             /\ last'[1].ret = (IF first = 0 THEN "x" ELSE "y")
             /\ first = 0 => OneRefusal
             /\ first # 0 => approvals' = approvals + 1 /\ refusals' = refusals ]_vars

\* C1 happens: a transaction was approved under the capped, whitelisted rule in
\* first place although the rule without any constraint stands behind it.
C1_Witness ==
    /\ last # None /\ last[1].op = "txn" /\ last[1].ret = "y" /\ last[1].rule = 1
    /\ Len(rules) = 2
    /\ rules[1] = ApprovalRule(R_cap, 0)
    /\ rules[2] = ApprovalRule(R_open, 1)

\* C2: approve_transaction returns 'y' or 'x' whatever it is given, a missing
\* or short digest included; no exception leaves it.
C2_AlwaysReturns ==
    (last # None /\ last[1].op = "txn") => last[1].ret \in {"y", "x"}

\* C3: with must_log set and the audit session unsaved, approve_transaction and
\* approve_msg_sign refuse with the logging refusal, so before any rule or path
\* is looked at, record no spend and count one refusal.
C3_MustLogRefusesFirst ==
    [][ ((TxnStep /\ DigestOk(req[1].sha_len)) \/ MsgStep)
          /\ must_log /\ last'[1].unsaved
        => /\ OneRefusal
           /\ last_refusal' = Some(Msg("Could not log details, and must_log is set", <<>>))
           /\ NoSpend ]_vars

\* C3 happens: a transaction was refused for want of a log under a policy
\* whose only rule has no constraint.
C3_Witness ==
    /\ last # None /\ last[1].op = "txn" /\ last[1].ret = "x" /\ last[1].unsaved
    /\ must_log
    /\ rules = << ApprovalRule(R_open, 0) >>
    /\ refusals = 1

\* C4: approve_transaction refuses when the policy has no rules, and when the
\* transaction carries warnings and warnings_ok is false, whatever credentials
\* and local code were given and whatever rule would match.
C4_NoRulesOrWarningsRefuse ==
    [][ TxnStep /\ (rules = <<>> \/ (req[1].psbt.warnings > 0 /\ ~warnings_ok))
        => OneRefusal /\ NoSpend ]_vars

\* C4 happens: a transaction with a warning was refused under a policy whose
\* only rule has no constraint.
C4_Witness ==
    /\ last # None /\ last[1].op = "txn" /\ last[1].ret = "x"
    /\ last_refusal = Some(Msg("Rejected: has warning(s)", <<>>))
    /\ rules = << ApprovalRule(R_open, 0) >>
    /\ ~warnings_ok

\* The rule's quorum is met by these verified users: those of them the rule
\* lists are at least one and at least min_users.
QuorumMet(rule, verified) ==
    LET counted == { u \in verified : \E i \in DOMAIN rule.users : rule.users[i] = u }
    IN Cardinality(counted) >= 1 /\ Cardinality(counted) >= rule.min_users[1]

\* min_users, when the rule object leaves it out, is the number of users listed.
DefaultQuorum ==
    \A j \in QuorumRuleDocs :
        ApprovalRule(j, 0).min_users =
            (IF j.min_users = None THEN Some(Len(j.users)) ELSE j.min_users)

\* C11: a rule that lists users passes its quorum check exactly when the
\* verified users it lists are at least one and at least min_users (by
\* default the number listed); verified users it does not list never count.
\* Under policies whose rules check nothing but their quorum, the decision is
\* approved under the first rule whose quorum is met and refused if there is
\* none, every rule then giving a quorum reason.
C11_QuorumCountsListedUsers ==
    /\ []DefaultQuorum
    /\ [][ ReachesMatching =>
             LET verified == DOMAIN pending_auth
                 met == { i \in DOMAIN rules : QuorumMet(rules[i], verified) }
             IN /\ \A i \in DOMAIN rules : rules[i].users # <<>>
                /\ last'[1].ret = (IF met = {} THEN "x" ELSE "y")
                /\ met # {} => last'[1].rule \in met /\ \A i \in met : last'[1].rule <= i
                /\ met = {} =>
                      /\ last_refusal' # None
                      /\ Len(last_refusal'[1].reasons) = Len(rules)
                      /\ \A i \in DOMAIN rules :
                            last_refusal'[1].reasons[i].why \in
                                {"need user(s) confirmation", "need more users to confirm"} ]_vars

\* C11 happens: with two users verified of whom the one-user rule lists none,
\* and of whom the two-of-three rule behind it lists both, the transaction was
\* approved under the second rule.
C11_Witness ==
    /\ last # None /\ last[1].op = "txn" /\ last[1].ret = "y" /\ last[1].rule = 2
    /\ rules = << ApprovalRule(R_al, 0), ApprovalRule(R_2of3, 1) >>

\* C12: at most one policy is active: load never activates, and activate
\* called while a policy is active fails on its assertion and leaves the active
\* policy, its rules' counters and its velocity window as they were.
C12_SingleActivation ==
    [][ /\ (phase' = "active" /\ phase # "active") =>
              (phase = "loaded" /\ last' = Some(Reply("activate", "ok", 0, FALSE)))
        /\ (phase = "active" /\ last' # None /\ last'[1].op = "activate") =>
              /\ last'[1].ret = "exc"
              /\ UNCHANGED << phase, config, rules, period_started, counters,
                              pending_auth, localcode >> ]_vars

\* C12 happens: activate was called on the active policy in the middle of a
\* velocity window and failed.
C12_Witness ==
    /\ phase = "active"
    /\ last = Some(Reply("activate", "exc", 0, FALSE))
    /\ period_started # 0
    /\ \E i \in DOMAIN rules : rules[i].spent_so_far > 0

\* C13: activate on a loaded policy with a staged secret writes the storage
\* locker once, with that secret, and leaves set_sl None; nothing else ever
\* writes the locker, and the active policy never holds a secret.
C13_SecretWrittenOnce ==
    /\ [](phase = "active" => set_sl = None)
    /\ [][ /\ (phase = "loaded" /\ phase' = "active" /\ set_sl # None) =>
                 /\ UnpackLocker(locker') = set_sl[1]
                 /\ set_sl' = None
           /\ locker' # locker =>
                 (phase = "loaded" /\ phase' = "active" /\ set_sl # None) ]_vars

\* C13 happens: the policy is active, the locker holds the secret and set_sl
\* is None.
C13_Witness ==
    /\ phase = "active"
    /\ UnpackLocker(locker) = Secret
    /\ set_sl = None
    /\ approvals + refusals > 0

\* The call of this step was fetch_storage_locker.
FetchStep == last = None /\ last' # None /\ last'[1].op = "locker"

\* C14: with allowance allow_sl, sl_reads never exceeds it; a
\* fetch_storage_locker succeeds only below the allowance and counts one read;
\* a call at the allowance or without any is refused; nothing done to the active
\* policy lowers sl_reads or changes allow_sl.
C14_ReadsWithinAllowance ==
    /\ [](sl_reads <= (IF allow_sl = None THEN 0 ELSE allow_sl[1]))
    /\ [][ /\ FetchStep =>
                 IF allow_sl # None /\ sl_reads < allow_sl[1]
                 THEN last'[1].ret # "exc" /\ sl_reads' = sl_reads + 1
                 ELSE last'[1].ret = "exc" /\ sl_reads' = sl_reads
           /\ ~FetchStep => sl_reads' = sl_reads
           /\ phase = "active" => allow_sl' = allow_sl ]_vars

\* C14 happens: the allowance is used up and one more call was refused.
C14_Witness ==
    /\ allow_sl = Some(MaxAllow)
    /\ sl_reads = MaxAllow
    /\ last = Some(Reply("locker", "exc", 0, FALSE))

\* C15: approve_msg_sign returns 'y' exactly when (must_log is false or the
\* audit session is durable) and msg_paths is not empty and (msg_paths holds
\* 'any' or holds the subpath of the request), and 'x' in every other case.
C15_MsgSignExactly ==
    [][ MsgStep =>
          LET allowed ==
                /\ ~must_log \/ ~last'[1].unsaved
                /\ msg_paths # <<>>
                /\ \E i \in DOMAIN msg_paths :
                      msg_paths[i] = "any" \/ msg_paths[i] = req[1].subpath
          IN last'[1].ret = (IF allowed THEN "y" ELSE "x") ]_vars

\* C15 happens: a message was approved on the path the policy lists, with
\* must_log set and the log on the card.
C15_Witness ==
    /\ last # None /\ last[1].op = "msg" /\ last[1].ret = "y" /\ ~last[1].unsaved
    /\ must_log
    /\ msg_paths = <<"m/1">>

\* C16: every decision that returns adds exactly 1 to exactly one of approvals
\* and refusals, to approvals exactly when it returns 'y'; last_refusal is
\* empty after an accept and set after a refusal; between decisions none of
\* the three moves.
C16_OneCounterPerDecision ==
    [][ /\ ((TxnStep \/ MsgStep) /\ last'[1].ret \in {"y", "x"}) =>
              IF last'[1].ret = "y"
              THEN /\ approvals' = approvals + 1
                   /\ refusals' = refusals
                   /\ last_refusal' = None
              ELSE /\ refusals' = refusals + 1
                   /\ approvals' = approvals
                   /\ last_refusal' # None
        /\ ~(TxnStep \/ MsgStep) => UNCHANGED << approvals, refusals, last_refusal >> ]_vars

\* C16 happens: an accept has followed a refusal, and last_refusal is empty.
C16_Witness ==
    /\ last # None /\ last[1].ret = "y"
    /\ approvals = 1 /\ refusals = 1
    /\ last_refusal = None

\* What a rule says: its caps, users, quorum, whitelist, local confirmation and
\* wallet, and its place in the list.
RuleSays(r) ==
    << r.index, r.per_period, r.max_amount, r.users, r.min_users, r.whitelist,
       r.local_conf, r.wallet >>

\* C17: of every policy load() accepted, save() gives a document without the
\* field set_sl, which load() accepts and from which it makes the same
\* top-level fields (set_sl apart, which is then empty) and rules that say the
\* same in the same order.
C17_SaveLoadRoundTrip ==
    phase # "new" =>
        /\ "set_sl" \notin DOMAIN Save
        /\ PolicyDocOk(Save)
        /\ Loaded(Save).set_sl = None
        /\ << Loaded(Save).must_log, Loaded(Save).warnings_ok, Loaded(Save).msg_paths,
              Loaded(Save).share_xpubs, Loaded(Save).share_addrs, Loaded(Save).notes,
              Loaded(Save).period, Loaded(Save).allow_sl >> = config
        /\ Len(Loaded(Save).rules) = Len(rules)
        /\ \A i \in DOMAIN rules : RuleSays(Loaded(Save).rules[i]) = RuleSays(rules[i])

\* C17 happens: a policy is loaded that holds a secret to store, cleaned-up
\* paths and a 2-of-3 rule, and has been saved without the secret.
C17_Witness ==
    /\ phase = "loaded"
    /\ set_sl = Some(Secret)
    /\ msg_paths = << "any", "m/1" >> /\ share_addrs = << "p2sh", "m/1" >>
    /\ Len(rules) = 2 /\ rules[1].min_users = Some(2) /\ rules[2].min_users = Some(1)
    /\ DOMAIN Save = PolicyFields \ { "set_sl" }

\* A step of status_report: the policy is in service with no call under way,
\* and nothing moves that any other operation would move.
StatusStep ==
    /\ Idle
    /\ UNCHANGED << phase, config, counters, pending_auth, localcode, storage, req, last >>

\* C18: status_report leaves every rule's spent_so_far and the start of the
\* velocity window as they were (with the credentials, the local codes and the
\* counters, which a step of status_report cannot move).
C18_StatusReportReadOnly ==
    [][ StatusStep => UNCHANGED << rules, period_started >> ]_vars

\* C20: in the reasons of a refusal, where every rule of the list has failed in
\* turn, the number shown for the k-th rule is k.
C20_RuleNumberIsPosition ==
    last_refusal # None =>
        \A k \in DOMAIN last_refusal[1].reasons : last_refusal[1].reasons[k].rule = k

\* C19: what a decision wrote to a file on the card stays: every file there
\* before a step is there after it, and begins with the lines it held.
C19_LogAppendOnly ==
    [][ \A n \in DOMAIN logs :
            /\ n \in DOMAIN logs'
            /\ Len(logs[n]) <= Len(logs'[n])
            /\ SubSeq(logs'[n], 1, Len(logs[n])) = logs[n] ]_vars

\* C21: a transaction is approved under a single-signer rule (wallet '1') only
\* if it is of no multisig wallet, whatever a multisig wallet is called, and
\* under a rule that names a multisig wallet only if it is of that wallet.
C21_WalletScope ==
    [][ (TxnStep /\ last'[1].ret = "y") =>
            LET wallet == rules[last'[1].rule].wallet
                ms == req[1].psbt.active_multisig
            IN /\ wallet = Some("1") => ms = None
               /\ (wallet # None /\ wallet # Some("1")) => ms = wallet ]_vars

\* C24: once active, a window that is not started goes with counters that are
\* all zero; and every approval under a rule with a per-period cap, at clock 0
\* and of amount 0 too, leaves the window started.
C24_CountersNeedWindow ==
    /\ [](phase = "active" =>
            (period_started = 0 => \A i \in DOMAIN rules : rules[i].spent_so_far = 0))
    /\ [][ (TxnStep /\ last'[1].ret = "y"
             /\ HasVelocity(rules[last'[1].rule])) => period_started' # 0 ]_vars

\* C24 happens: a spend of amount 0 was recorded at clock 0 under a capped
\* rule, and the window is started.
C24_Witness ==
    /\ last # None /\ last[1].op = "txn" /\ last[1].ret = "y"
    /\ HasVelocity(rules[last[1].rule])
    /\ now = 0
    /\ \A i \in DOMAIN rules : rules[i].spent_so_far = 0
    /\ period_started = 1

\* C23: when a decision has returned, the card slot is not held: every audit
\* session that acquired it has released it, one whose log could not be
\* opened included.
C23_SessionReleasesCard == ~card_held

\* What was spent under rule k at times from..(to - 1), by the history.
RECURSIVE SpentIn(_, _, _, _)
SpentIn(hist, k, from, to) ==
    IF hist = << >> THEN 0
    ELSE (IF Head(hist).rule = k /\ from <= Head(hist).t /\ Head(hist).t < to
          THEN Head(hist).amt ELSE 0)
         + SpentIn(Tail(hist), k, from, to)

\* C22: under a rule with a per-period cap, what is approved within any
\* period * 60 seconds (here: those that begin at a spend) is within the cap.
C22_RollingWindowCap ==
    \A i \in DOMAIN spends :
        SpentIn(spends, spends[i].rule, spends[i].t, spends[i].t + period[1] * SEC_PER_MIN)
            <= rules[spends[i].rule].per_period[1]

\* The place of the rule this step recorded a spend under, 0 if it recorded none.
SpendPlace ==
    IF TxnStep /\ last'[1].ret = "y" /\ rules[last'[1].rule].per_period # None
    THEN last'[1].rule
    ELSE 0

\* The amount the transaction of this step sends away.
SpendAmount == TotalOut(req[1].psbt.outputs)

\* Every rule with a per-period cap has spent no more than its cap.
CapRespected ==
    \A i \in DOMAIN rules :
        rules[i].per_period # None => rules[i].spent_so_far <= rules[i].per_period[1]

\* C5: in every state every capped rule has spent_so_far <= per_period; a
\* transaction is approved under a capped rule only if the rule's counter at
\* decision time plus total_out is within the cap, and the approval adds
\* exactly total_out to that counter and nothing to any other.
C5_SpendWithinCap ==
    /\ []CapRespected
    /\ [][ TxnStep /\ last'[1].ret = "y" =>
             LET k == last'[1].rule
                 was == RulesAtDecision
             IN /\ was[k].per_period # None =>
                     /\ was[k].spent_so_far + SpendAmount <= was[k].per_period[1]
                     /\ rules'[k].spent_so_far = was[k].spent_so_far + SpendAmount
                /\ was[k].per_period = None => rules'[k] = was[k]
                /\ \A i \in DOMAIN rules \ {k} : rules'[i] = was[i] ]_vars

\* C5 happens: a second approval has brought a capped rule exactly to its cap.
C5_Witness ==
    /\ last # None /\ last[1].op = "txn" /\ last[1].ret = "y"
    /\ approvals = 2
    /\ rules[last[1].rule].per_period = Some(2)
    /\ rules[last[1].rule].spent_so_far = 2
    /\ \E i \in DOMAIN rules : i # last[1].rule /\ rules[i].spent_so_far = 0

\* The clock readings at which a spend may have started the window that
\* period_started = started stands for: record_spend stores 1 for a reading of 0.
SpendTimes(started) == IF started = 1 THEN {0, 1} ELSE {started}

\* C6: with a window started by a spend at t0, a get_time_left made later than
\* t0 + period*60, approve_transaction's included, zeroes every counter and
\* marks the window unstarted, and the decision that made it matches against
\* zero counters; one made before t0 + period*60 leaves counters and window
\* start as they were.  (now' is the clock as the step read it.)
C6_WindowResetOnRead ==
    [][ period # None /\ period_started # 0 =>
          \A t0 \in SpendTimes(period_started) :
             LET ends == t0 + period[1] * SEC_PER_MIN
                 k == SpendPlace
             IN /\ now' > ends =>
                     /\ \A i \in DOMAIN rules :
                           rules'[i].spent_so_far = (IF i = k THEN SpendAmount ELSE 0)
                     /\ period_started' = (IF k = 0 THEN 0 ELSE now')
                     /\ ReachesMatching =>
                           last'[1].rule =
                               FirstPassing(ResetRules(rules), req[1].psbt,
                                            DOMAIN pending_auth, SpendAmount,
                                            Dests(req[1].psbt.outputs),
                                            local_code_pending = next_local_code)
                /\ now' < ends =>
                     /\ \A i \in DOMAIN rules :
                           rules'[i].spent_so_far =
                               rules[i].spent_so_far + (IF i = k THEN SpendAmount ELSE 0)
                     /\ period_started' = period_started ]_vars

\* C6 happens: approve_transaction found a window that had run out, a second
\* past its end at the latest, and left every counter at zero and no window.
C6_Witness ==
    /\ last # None /\ last[1].op = "txn"
    /\ approvals >= 1
    /\ now = SEC_PER_MIN + 1
    /\ period = Some(1)
    /\ period_started = 0
    /\ \A i \in DOMAIN rules : rules[i].spent_so_far = 0

\* C7: whenever approve_transaction returns, accept or refuse, the entered
\* local code has been cleared (the code was consumed before any other check).
C7_CodeConsumedByEveryCall ==
    [][ TxnStep /\ last'[1].ret \in {"y", "x"} => local_code_pending' = "" ]_vars

\* C8: after consume_local_code the expected local code differs from the one
\* expected before it.
C8_ExpectedCodeChanges ==
    [][ TxnStep /\ DigestOk(req[1].sha_len) /\ ~(must_log /\ last'[1].unsaved)
        => next_local_code' # next_local_code ]_vars

\* C9: after approve_transaction returns, accept or refuse, the map of pending
\* credentials is empty.
C9_CredentialsTakenByNextCall ==
    [][ TxnStep /\ last'[1].ret \in {"y", "x"} => pending_auth' = << >> ]_vars

\* The decision of this step gets as far as verifying the pending credentials.
ReachesVerification ==
    /\ TxnStep
    /\ DigestOk(req[1].sha_len)
    /\ ~(must_log /\ last'[1].unsaved)
    /\ rules # <<>>
    /\ ~(req[1].psbt.warnings > 0 /\ ~warnings_ok)

\* C10: if a pending credential fails verification the decision is refused,
\* whatever rule would match; no spend is recorded and exactly one refusal is
\* counted, the one for the wrong credential.
C10_BadCredentialRefuses ==
    [][ ReachesVerification
          /\ (\E u \in DOMAIN pending_auth : AuthOkay(u, pending_auth[u]) # "")
        => /\ OneRefusal
           /\ NoSpend
           /\ last_refusal' = Some(Msg("User gave wrong auth value", <<>>)) ]_vars

\* C10 happens: a transaction was refused for a wrong credential under a policy
\* whose only rule has no constraint.
C10_Witness ==
    /\ last # None /\ last[1].op = "txn" /\ last[1].ret = "x"
    /\ last_refusal = Some(Msg("User gave wrong auth value", <<>>))
    /\ rules = << ApprovalRule(R_open, 0) >>
    /\ refusals = 1 /\ approvals = 0

====
